---- MODULE Spec2Model ----
(***************************************************************************)
(* Model of gemini/autocal/services/image-processor/main.py: the Cloud Run *)
(* function image_processor, triggered by a write to the `screenshots`     *)
(* collection, which asks Gemini for a calendar entry and merges it into   *)
(* the `state` collection.                                                 *)
(*                                                                         *)
(* An invocation is suspended only at its two blocking calls, so the       *)
(* handler is one action, image_processor(i), that runs invocation i up to *)
(* its next blocking call:                                                 *)
(*   "decode"    lines 123-138   (up to the skip, or up to the AI request)  *)
(*   "generate"  lines 140-155   (the AI call answers or raises)            *)
(*   "write"     lines 157-171   (json.loads, then the Firestore set)       *)
(* Python dicts are functions on their set of keys; None is a sentinel.    *)
(***************************************************************************)
EXTENDS Integers, Sequences, FiniteSets, TLC

\* Number of invocations the hosting infrastructure delivers (bound).
NumInv == 2

Invocations == 1..NumInv

None == "<None>"
EmptyDict == [k \in {} |-> None]

DictGet(d, k, default) == IF k \in DOMAIN d THEN d[k] ELSE default

Truthy(x) == x # None /\ x # ""

----------------------------------------------------------------------------
(* The trigger payload: a Firestore document snapshot, a field map keyed   *)
(* by field name whose values are typed wrappers ({stringValue: ...},      *)
(* {integerValue: ...}).                                                   *)

FieldNames == {"image", "type", "ID"}

StringValue(s) == [k \in {"stringValue"} |-> s]
IntegerValue == [k \in {"integerValue"} |-> "7"]

GoodValues(name) ==
  CASE name = "image" -> {"gs://bucket/a.png"}
    [] name = "type" -> {"image/png"}
    [] name = "ID" -> {"tx-1", "tx-2"}

Wrappers(name) ==
  {StringValue(s) : s \in GoodValues(name)} \cup {StringValue(""), IntegerValue}

IsGood(fields, name) ==
  /\ name \in DOMAIN fields
  /\ "stringValue" \in DOMAIN fields[name]
  /\ fields[name]["stringValue"] # ""

\* Snapshots with at most one of the three fields absent, empty or
\* non-string, and the snapshot with no field at all.
Snapshots ==
  LET all == UNION {{f \in [S -> UNION {Wrappers(n) : n \in FieldNames}] :
                        \A n \in S : f[n] \in Wrappers(n)} : S \in SUBSET FieldNames}
  IN {f \in all : \/ DOMAIN f = {}
                  \/ Cardinality({n \in FieldNames : ~IsGood(f, n)}) <= 1}

\* The CloudEvent handed to the function: its data is the serialized
\* DocumentEventData, whose `value` is the written document.
CloudEvents == {[source |-> "screenshots", data |-> [value |-> [fields |-> f]]] : f \in Snapshots}

NoEvent == [source |-> "", data |-> [value |-> [fields |-> EmptyDict]]]

----------------------------------------------------------------------------
(* Trigger decoding, lines 123-138.                                         *)

\* firestore.DocumentEventData(): a freshly constructed message, all fields
\* unset.  Line 123 is the only statement that builds firestore_payload, and
\* no statement parses cloud_event.data into it.
DocumentEventData == [value |-> [fields |-> EmptyDict]]

\* MessageToDict: the dict of the message's set fields; an empty map field
\* is left out.
MessageToDict(document) ==
  IF DOMAIN document.fields = {} THEN EmptyDict
  ELSE [k \in {"fields"} |-> document.fields]

\* document_data.get("fields", {}).get(name, {}).get("stringValue")
GetStringValue(document_data, name) ==
  DictGet(DictGet(DictGet(document_data, "fields", EmptyDict), name, EmptyDict),
          "stringValue", None)

\* if not all([gcs_url, mime_type, document_id])
MissingRequired_Inverted(gcs, mime, id) == Truthy(gcs) /\ Truthy(mime) /\ Truthy(id)
MissingRequired(gcs, mime, id) == ~(Truthy(gcs) /\ Truthy(mime) /\ Truthy(id))

----------------------------------------------------------------------------
(* The AI response text and json.loads, line 158.  A text is a sequence of *)
(* tokens: braces and "key": "value" members.                              *)

LBrace == [k |-> "{", v |-> ""]
RBrace == [k |-> "}", v |-> ""]
Member(key, val) == [k |-> key, v |-> val]

NoText == << >>

MeetingText ==
  <<LBrace, Member("summary", "Meeting"), Member("location", "Room 1"),
    Member("description", "desc"), Member("start", "2025-06-01T10:00:00"),
    Member("end", "2025-06-01T11:00:00"), RBrace>>

\* Only the required members of response_schema (no location).
LunchText ==
  <<LBrace, Member("summary", "Lunch"), Member("description", "canteen"),
    Member("start", "2025-06-02T12:00:00"), Member("end", "2025-06-02T13:00:00"),
    RBrace>>

\* Cut off before the closing brace: not JSON.
TruncatedText == <<LBrace, Member("summary", "Meeting")>>

Texts == {MeetingText, LunchText, TruncatedText}

IsJson(text) ==
  /\ Len(text) >= 3
  /\ text[1] = LBrace
  /\ text[Len(text)] = RBrace
  /\ \A n \in 2..(Len(text) - 1) : text[n] # LBrace /\ text[n] # RBrace

\* The decoded object: for a repeated key the last member wins.
json_loads(text) ==
  LET members == 2..(Len(text) - 1)
      keys == {text[n].k : n \in members}
      last(key) == CHOOSE n \in members :
                      /\ text[n].k = key
                      /\ \A m \in members : text[m].k = key => m <= n
  IN [key \in keys |-> text[last(key)].v]

\* What client.models.generate_content can do: raise, or answer with a text.
AiOutcomes ==
  {[raises |-> TRUE, text |-> NoText]} \cup {[raises |-> FALSE, text |-> t] : t \in Texts}

----------------------------------------------------------------------------
(* The `state` collection.  A stored document is a map from leaf field     *)
(* paths to values; set(data, merge=True) writes the leaf paths of data    *)
(* and leaves every other path of the document alone.                      *)

DocIds == {"tx-1", "tx-2"}
AutoId == "auto-id"

NoDoc == [p \in {} |-> None]

UiDoc ==
  (<<"error">> :> FALSE) @@ (<<"active">> :> TRUE) @@
  (<<"message">> :> "uploaded") @@ (<<"image">> :> "gs://bucket/a.png")

OldDoc ==
  (<<"processed">> :> FALSE) @@ (<<"active">> :> TRUE) @@
  (<<"event", "summary">> :> "Old") @@ (<<"event", "location">> :> "Old room")

PriorDocs == {NoDoc, UiDoc, OldDoc}

\* db.collection("state").document(document_id): document(None) names a
\* new document with a generated id.
DocRef(id) == IF id \in DocIds THEN id ELSE AutoId

\* firestore_document = {"processed": True, "event": event_data}
FirestoreDocument(event_data) == [processed |-> TRUE, event |-> event_data]

FieldPaths(data) ==
  {<<name>> : name \in DOMAIN data \ {"event"}} \cup
  (IF "event" \in DOMAIN data THEN {<<"event", key>> : key \in DOMAIN data.event} ELSE {})

ValueAt(data, path) ==
  IF Len(path) = 1 THEN data[path[1]] ELSE data[path[1]][path[2]]

SetMerge(doc, data) ==
  [p \in DOMAIN doc \cup FieldPaths(data) |->
     IF p \in FieldPaths(data) THEN ValueAt(data, p) ELSE doc[p]]

\* What doc_ref.set can do: succeed, or raise GoogleAPICallError or another
\* error; a call that raised may or may not have been applied by the server.
WriteOutcomes ==
  {[raises |-> "none", applied |-> TRUE]} \cup
  {[raises |-> e, applied |-> a] : e \in {"GoogleAPICallError", "OtherError"}, a \in BOOLEAN}

----------------------------------------------------------------------------
VARIABLES
  pc,             \* per invocation: "idle", "decode", "generate", "write", "done"
  cloud_event,    \* per invocation: the event it was triggered with
  gcs_url,        \* per invocation: local of line 132
  mime_type,      \* per invocation: local of line 133
  document_id,    \* per invocation: local of line 134
  response_text,  \* per invocation: response.text, NoText before the answer
  result,         \* per invocation: "running", "returned", "raised"
  log,            \* per invocation: the messages printed
  aiRequests,     \* per invocation: the generate_content calls issued
  setCalls,       \* per invocation: the payloads passed to doc_ref.set
  applied,        \* the invocations whose writes the store applied, in order
  db              \* the `state` collection: document id -> document

vars == <<pc, cloud_event, gcs_url, mime_type, document_id, response_text,
          result, log, aiRequests, setCalls, applied, db>>

Init ==
  /\ pc = [i \in Invocations |-> "idle"]
  /\ cloud_event = [i \in Invocations |-> NoEvent]
  /\ gcs_url = [i \in Invocations |-> None]
  /\ mime_type = [i \in Invocations |-> None]
  /\ document_id = [i \in Invocations |-> None]
  /\ response_text = [i \in Invocations |-> NoText]
  /\ result = [i \in Invocations |-> "running"]
  /\ log = [i \in Invocations |-> << >>]
  /\ aiRequests = [i \in Invocations |-> << >>]
  /\ setCalls = [i \in Invocations |-> << >>]
  /\ applied = << >>
  /\ \E prior \in [DocIds -> PriorDocs] : db = prior @@ (AutoId :> NoDoc)

\* The hosting infrastructure delivers an event and starts an invocation.
Trigger(i, ev) ==
  /\ pc[i] = "idle"
  /\ pc' = [pc EXCEPT ![i] = "decode"]
  /\ cloud_event' = [cloud_event EXCEPT ![i] = ev]
  /\ UNCHANGED <<gcs_url, mime_type, document_id, response_text, result, log,
                 aiRequests, setCalls, applied, db>>

\* Lines 123-138, and for a complete document lines 140-155 up to the
\* request: the call to generate_content is issued and the invocation blocks.
Decode(i) ==
  LET firestore_payload == DocumentEventData
      document_data == MessageToDict(firestore_payload.value)
      gcs == GetStringValue(document_data, "image")
      mime == GetStringValue(document_data, "type")
      id == GetStringValue(document_data, "ID")
  IN /\ gcs_url' = [gcs_url EXCEPT ![i] = gcs]
     /\ mime_type' = [mime_type EXCEPT ![i] = mime]
     /\ document_id' = [document_id EXCEPT ![i] = id]
     /\ IF MissingRequired(gcs, mime, id)
        THEN /\ log' = [log EXCEPT ![i] = <<"triggered", "missing">>]
             /\ result' = [result EXCEPT ![i] = "returned"]
             /\ pc' = [pc EXCEPT ![i] = "done"]
             /\ UNCHANGED aiRequests
        ELSE /\ log' = [log EXCEPT ![i] = <<"triggered">>]
             /\ aiRequests' = [aiRequests EXCEPT
                                 ![i] = Append(@, [file_uri |-> gcs, mime_type |-> mime])]
             /\ pc' = [pc EXCEPT ![i] = "generate"]
             /\ UNCHANGED result
     /\ UNCHANGED <<cloud_event, response_text, setCalls, applied, db>>

\* Lines 146-155: generate_content answers or raises; nothing catches.
Generate(i) ==
  \E o \in AiOutcomes :
    /\ IF o.raises
       THEN /\ result' = [result EXCEPT ![i] = "raised"]
            /\ pc' = [pc EXCEPT ![i] = "done"]
            /\ UNCHANGED response_text
       ELSE /\ response_text' = [response_text EXCEPT ![i] = o.text]
            /\ pc' = [pc EXCEPT ![i] = "write"]
            /\ UNCHANGED result
    /\ UNCHANGED <<cloud_event, gcs_url, mime_type, document_id, log,
                   aiRequests, setCalls, applied, db>>

\* Lines 157-171: json.loads (a decode error propagates), then the set with
\* merge=True inside try / except GoogleAPICallError.
Write(i) ==
  IF ~IsJson(response_text[i])
  THEN /\ log' = [log EXCEPT ![i] = Append(@, "raw")]
       /\ result' = [result EXCEPT ![i] = "raised"]
       /\ pc' = [pc EXCEPT ![i] = "done"]
       /\ UNCHANGED <<cloud_event, gcs_url, mime_type, document_id, response_text,
                      aiRequests, setCalls, applied, db>>
  ELSE
    \E o \in WriteOutcomes :
      LET event_data == json_loads(response_text[i])
          firestore_document == FirestoreDocument(event_data)
          ref == DocRef(document_id[i])
      IN /\ setCalls' = [setCalls EXCEPT ![i] = Append(@, firestore_document)]
         /\ IF o.applied
            THEN /\ db' = [db EXCEPT ![ref] = SetMerge(@, firestore_document)]
                 /\ applied' = Append(applied, i)
            ELSE UNCHANGED <<db, applied>>
         /\ log' = [log EXCEPT ![i] =
                      @ \o (CASE o.raises = "none" -> <<"raw", "wrote">>
                              [] o.raises = "GoogleAPICallError" -> <<"raw", "error_writing">>
                              [] OTHER -> <<"raw">>)]
         /\ result' = [result EXCEPT ![i] =
                         IF o.raises = "OtherError" THEN "raised" ELSE "returned"]
         /\ pc' = [pc EXCEPT ![i] = "done"]
         /\ UNCHANGED <<cloud_event, gcs_url, mime_type, document_id, response_text,
                        aiRequests>>

\* The handler: invocation i runs to its next blocking call or to its end.
image_processor(i) ==
  /\ pc[i] \in {"decode", "generate", "write"}
  /\ CASE pc[i] = "decode" -> Decode(i)
       [] pc[i] = "generate" -> Generate(i)
       [] pc[i] = "write" -> Write(i)

Next ==
  \E i \in Invocations :
    \/ \E ev \in CloudEvents : Trigger(i, ev)
    \/ image_processor(i)

Spec == Init /\ [][Next]_vars

----------------------------------------------------------------------------
(* Vocabulary of the properties.                                           *)

Range(s) == {s[n] : n \in 1..Len(s)}

Fields(ev) == ev.data.value.fields

\* The snapshot carries non-empty string fields image, type and ID.
ValidEvent(ev) == \A n \in FieldNames : IsGood(Fields(ev), n)

\* The string a snapshot carries for a field, None when it carries none.
Carried(ev, name) == GetStringValue(MessageToDict(ev.data.value), name)

\* The event map of a stored document.
EventOf(doc) ==
  [key \in {p[2] : p \in {q \in DOMAIN doc : Len(q) = 2 /\ q[1] = "event"}} |->
     doc[<<"event", key>>]]

Processed(doc) == <<"processed">> \in DOMAIN doc /\ doc[<<"processed">>] = TRUE

\* Invocation i ends in this step, returning normally and without having
\* logged a write error.
ReturnsClean(i) ==
  /\ pc[i] # "done"
  /\ pc'[i] = "done"
  /\ result'[i] = "returned"
  /\ "error_writing" \notin Range(log'[i])

Rank(stage) ==
  CASE stage = "idle" -> 0
    [] stage = "decode" -> 1
    [] stage = "generate" -> 2
    [] stage = "write" -> 3
    [] stage = "done" -> 4

----------------------------------------------------------------------------
\* C1: for an event whose snapshot carries non-empty string image, type and
\* ID, when image_processor returns normally without a write error the
\* document state/<ID> has processed = true and event = the parsed response.
C1_ValidEventMerged ==
  [][\A i \in Invocations :
       (ReturnsClean(i) /\ ValidEvent(cloud_event[i])) =>
         LET doc == db'[Carried(cloud_event[i], "ID")]
         IN /\ Processed(doc)
            /\ IsJson(response_text'[i])
            /\ EventOf(doc) = json_loads(response_text'[i])]_vars

\* C2: when any of image, type or ID is absent, empty or not string-typed,
\* the invocation issues no AI call and no document-store write, never
\* raises, and once past the decoding has returned normally.
C2_SkipOnMissingField ==
  \A i \in Invocations :
    (pc[i] # "idle" /\ ~ValidEvent(cloud_event[i])) =>
      /\ aiRequests[i] = << >>
      /\ setCalls[i] = << >>
      /\ result[i] # "raised"
      /\ pc[i] \in {"decode", "done"}
      /\ (pc[i] = "done" => result[i] = "returned")

\* C2 witness: one invocation has returned on a snapshot without ID, one on
\* a snapshot whose image is not string-typed.
C2_Witness ==
  \E i, j \in Invocations :
    /\ pc[i] = "done" /\ result[i] = "returned"
    /\ DOMAIN Fields(cloud_event[i]) = {"image", "type"}
    /\ IsGood(Fields(cloud_event[i]), "image") /\ IsGood(Fields(cloud_event[i]), "type")
    /\ pc[j] = "done" /\ result[j] = "returned"
    /\ DOMAIN Fields(cloud_event[j]) = FieldNames
    /\ Fields(cloud_event[j])["image"] = IntegerValue
    /\ log[i] = <<"triggered", "missing">> /\ log[j] = <<"triggered", "missing">>

C9_StrictlyForward ==
  /\ [](\A i \in Invocations :
          /\ Len(aiRequests[i]) <= 1
          /\ Len(setCalls[i]) <= 1
          /\ aiRequests[i] # << >> =>
               /\ Truthy(gcs_url[i]) /\ Truthy(mime_type[i]) /\ Truthy(document_id[i])
               /\ aiRequests[i][1] = [file_uri |-> gcs_url[i], mime_type |-> mime_type[i]]
          /\ setCalls[i] # << >> => (Len(aiRequests[i]) = 1 /\ IsJson(response_text[i]))
          /\ pc[i] \in {"generate", "write"} => Len(aiRequests[i]) = 1)
  /\ [][\A i \in Invocations :
          pc'[i] # pc[i] => Rank(pc'[i]) > Rank(pc[i])]_vars

\* C9 witness: an invocation whose decoded ID is not a non-empty string has
\* ended after the decoding alone, with no AI call and no set.
C9_Witness ==
  \E i \in Invocations :
    /\ pc[i] = "done"
    /\ ~Truthy(document_id[i])
    /\ aiRequests[i] = << >>
    /\ setCalls[i] = << >>

\* Consequence of the decoding of line 123 (see C10): no invocation gets past
\* the decoding, whatever its event; lines 140-171 are never executed.
OnlyDecodeRuns ==
  \A i \in Invocations :
    /\ pc[i] \in {"idle", "decode", "done"}
    /\ pc[i] = "done" => log[i] = <<"triggered", "missing">>
    /\ aiRequests[i] = << >> /\ setCalls[i] = << >> /\ applied = << >>

\* C10: the image, type and ID the handler tests are those the event's
\* snapshot carries, so invocations on snapshots that carry different
\* strings hold different decoded fields.
C10_DecodedFromEvent ==
  /\ \A i \in Invocations :
       pc[i] \notin {"idle", "decode"} =>
         /\ gcs_url[i] = Carried(cloud_event[i], "image")
         /\ mime_type[i] = Carried(cloud_event[i], "type")
         /\ document_id[i] = Carried(cloud_event[i], "ID")
  /\ \A i, j \in Invocations :
       (/\ pc[i] \notin {"idle", "decode"}
        /\ pc[j] \notin {"idle", "decode"}
        /\ \E n \in FieldNames : Carried(cloud_event[i], n) # Carried(cloud_event[j], n)) =>
         <<gcs_url[i], mime_type[i], document_id[i]>> #
           <<gcs_url[j], mime_type[j], document_id[j]>>

====
